---- MODULE Spec2Model ----
(***************************************************************************)
(* Model of the caption-generator wizard of EngagePerfect:                 *)
(*   - WizardProvider (context/WizardContext.jsx): currentStep, formData,  *)
(*     completedSteps and the navigation functions;                        *)
(*   - WizardLayout (components/wizard/WizardLayout.jsx): canProceed and   *)
(*     the Previous / Next / Finish controls;                              *)
(*   - CaptionGenerator (pages/CaptionGenerator.jsx): WIZARD_STEPS,        *)
(*     validateStep, initialData and handleComplete.                       *)
(*                                                                         *)
(*   - UploadMediaStep (components/wizard/steps/UploadMediaStep.jsx): the  *)
(*     media selection and editing handlers of the first step.             *)
(*                                                                         *)
(* JavaScript values are encoded as strings: a string is itself, true is   *)
(* "true", false is "false", and a missing property reads as "undefined".  *)
(* Indices are 0-based as in the code; steps[i] of the code is             *)
(* steps[i + 1] of the model.                                              *)
(***************************************************************************)
EXTENDS Integers, Sequences, FiniteSets, TLC

VARIABLES
    steps,            \* WizardProvider prop: the step descriptors (fixed)
    props,            \* WizardLayout props: which callbacks the host passed
    currentStep,      \* useState(0)
    formData,         \* useState(initialData)
    completedSteps,   \* useState({}): the keys of the object
    isComplete,       \* CaptionGenerator useState(false)
    finalData,        \* CaptionGenerator useState(null)
    lastOp,           \* history: the handler that ran last
    editor,           \* UploadMediaStep: its useState values, as a record
    objectUrls,       \* browser: object URLs created and not yet revoked
    urlCount,         \* browser: number of object URLs created so far
    cropRect,         \* history: the normalizedCrop of the last synthesis
    probe,            \* a call of validateStep on its own: arguments, result
    prefs             \* the signed-in user, the Firestore preferences, loads in flight

vars == <<steps, props, currentStep, formData, completedSteps,
          isComplete, finalData, lastOp, editor, objectUrls, urlCount,
          cropRect, probe, prefs>>

\* what lives outside the WizardProvider, the Layout and the host page
stepVars == <<editor, objectUrls, urlCount, cropRect, probe, prefs>>

wizardState == <<currentStep, formData, completedSteps>>

(***************************************************************************)
(* Bounds of the model.                                                    *)
(***************************************************************************)
MaxSteps == 3

MaxPatchKeys == 2

MaxIndexPast == 1

MaxUrls == 2

(***************************************************************************)
(* JavaScript values.                                                      *)
(***************************************************************************)
Undefined == "undefined"

Null == "null"

EmptyMap == [k \in {} |-> Undefined]

\* obj.key: a missing property reads as undefined
Get(obj, key) == IF key \in DOMAIN obj THEN obj[key] ELSE Undefined

\* !!v
Truthy(v) == v \notin {"", "false", Undefined, Null}

(***************************************************************************)
(* CaptionGenerator: the step registry and the initial form data.          *)
(***************************************************************************)
WIZARD_STEPS ==
    << [id |-> "upload_media"], [id |-> "select_niche"], [id |-> "platform"],
       [id |-> "goal"], [id |-> "tone"], [id |-> "generated_captions"] >>

\* the i-th descriptor (1-based) of a registry of any length: WIZARD_STEPS,
\* continued with further descriptors of unique ids
StepAt(i) ==
    IF i <= Len(WIZARD_STEPS) THEN WIZARD_STEPS[i]
    ELSE [id |-> "step_" \o ToString(i)]

StepLists == { [i \in 1..n |-> StepAt(i)] : n \in 0..MaxSteps }

DataKeys == {"mediaUrl", "isTextOnly", "nicheInput"}

ValuesOf(key) ==
    CASE key = "mediaUrl"   -> {"", "blob:1"}
      [] key = "isTextOnly" -> {"true", "false"}
      [] key = "nicheInput" -> {"", "Travel"}

initialData == [k \in DataKeys \ {"isTextOnly"} |-> ""]

InitialDatas == {EmptyMap, initialData}

AllValues == UNION {ValuesOf(k) : k \in DataKeys}

\* the patches handed to updateFormData: up to MaxPatchKeys keys at once
Patches ==
    UNION { {p \in [ks -> AllValues] : \A k \in ks : p[k] \in ValuesOf(k)} :
              ks \in {s \in SUBSET DataKeys :
                        Cardinality(s) >= 1 /\ Cardinality(s) <= MaxPatchKeys} }

\* the indices handed to goToStep: negative, in range, and past the end
StepArgs == (0 - 1)..(MaxSteps + 1)

(***************************************************************************)
(* WizardProvider: derived values (WizardContext.jsx).                     *)
(***************************************************************************)
totalSteps == Len(steps)

isFirstStep == currentStep = 0

isLastStep == currentStep = totalSteps - 1

\* steps[stepIndex]?.id
StepId(stepIndex) ==
    IF stepIndex >= 0 /\ stepIndex < totalSteps THEN steps[stepIndex + 1].id
    ELSE Undefined

currentStepId == StepId(currentStep)

\* !!completedSteps[steps[stepIndex]?.id]
isStepCompleted(stepIndex) == StepId(stepIndex) \in completedSteps

\* variant: the patch replaces the previous data
Merge_Replace(prev, newData) == newData

\* {...prev, ...newData}
Merge(prev, newData) ==
    [k \in DOMAIN prev \cup DOMAIN newData |->
        IF k \in DOMAIN newData THEN newData[k] ELSE prev[k]]

(***************************************************************************)
(* UploadMediaStep: the useState defaults of the component.                *)
(***************************************************************************)
DefaultTextPosition == [x |-> 50, y |-> 90]

EditorDefaults ==
    [ error          |-> "",
      showEditor     |-> FALSE,
      filter         |-> "none",
      rotation       |-> 0,
      cropStart      |-> [x |-> 50 * 100, y |-> 90 * 100],
      cropEnd        |-> [x |-> 50 * 100, y |-> 90 * 100],
      isCropping     |-> FALSE,
      cropPreview    |-> Null,
      isAddingText   |-> FALSE,
      textOverlay    |-> "",
      textPosition   |-> DefaultTextPosition,
      isDraggingText |-> FALSE,
      dragStartPos   |-> [mouseX |-> 0, mouseY |-> 0, textX |-> 0, textY |-> 0],
      textRotation   |-> 0,
      isRotatingText |-> FALSE ]

\* no crop has been synthesized yet
NoCropRect == [startX |-> 0, startY |-> 0, endX |-> 0, endY |-> 0]

\* no call of validateStep on its own
NoProbe == [stepIndex |-> 0, data |-> EmptyMap, valid |-> FALSE]

\* the formData fields the Platform, Goal and Tone steps fill
PrefFields == {"platform", "goal", "tone"}

\* nobody signed in, no preference saved, nothing in flight
NoPrefs ==
    [ user   |-> FALSE,
      saved  |-> [f \in PrefFields |-> ""],
      loads  |-> {},
      writes |-> {},
      sent   |-> 0,
      byUser |-> {} ]

(***************************************************************************)
(* WizardProvider: the state after construction.                           *)
(***************************************************************************)
Init ==
    /\ steps \in StepLists
    /\ props \in [validateStep : BOOLEAN, onComplete : BOOLEAN,
                  initialData : InitialDatas]
    /\ currentStep = 0
    /\ formData = props.initialData
    /\ completedSteps = {}
    /\ isComplete = FALSE
    /\ finalData = Null
    /\ lastOp = "WizardProvider"
    /\ editor = EditorDefaults
    /\ objectUrls = {}
    /\ urlCount = 0
    /\ cropRect = NoCropRect
    /\ probe = NoProbe
    /\ prefs = NoPrefs

(***************************************************************************)
(* WizardProvider: the functions of the context value, as updates of the   *)
(* three pieces of state.                                                  *)
(***************************************************************************)
\* variant: the completion goes to the step being entered
DoGoToNextStep_MarksEntered ==
    IF currentStep < totalSteps - 1
    THEN /\ completedSteps' = completedSteps \cup {StepId(currentStep + 1)}
         /\ currentStep' = currentStep + 1
         /\ UNCHANGED formData
    ELSE UNCHANGED wizardState

\* variant: the completion is recorded outside the guard
DoGoToNextStep_MarksAlways ==
    /\ completedSteps' = completedSteps \cup {currentStepId}
    /\ currentStep' = IF currentStep < totalSteps - 1
                      THEN currentStep + 1 ELSE currentStep
    /\ UNCHANGED formData

\* variant: the step left is not recorded as completed
DoGoToNextStep_NoMark ==
    IF currentStep < totalSteps - 1
    THEN /\ currentStep' = currentStep + 1
         /\ UNCHANGED <<formData, completedSteps>>
    ELSE UNCHANGED wizardState

DoGoToNextStep ==
    IF currentStep < totalSteps - 1
    THEN /\ completedSteps' = completedSteps \cup {currentStepId}
         /\ currentStep' = currentStep + 1
         /\ UNCHANGED formData
    ELSE UNCHANGED wizardState

\* variant: no guard on the first step
DoGoToPrevStep_NoGuard ==
    /\ currentStep' = currentStep - 1
    /\ UNCHANGED <<formData, completedSteps>>

\* variant: going back un-completes the step gone back to
DoGoToPrevStep_Uncompletes ==
    IF currentStep > 0
    THEN /\ currentStep' = currentStep - 1
         /\ completedSteps' = completedSteps \ {StepId(currentStep - 1)}
         /\ UNCHANGED formData
    ELSE UNCHANGED wizardState

DoGoToPrevStep ==
    IF currentStep > 0
    THEN /\ currentStep' = currentStep - 1
         /\ UNCHANGED <<formData, completedSteps>>
    ELSE UNCHANGED wizardState

\* variant: no lower bound on the index
DoGoToStep_NoLowerBound(stepIndex) ==
    IF /\ stepIndex < totalSteps
       /\ Cardinality(completedSteps) >= stepIndex
    THEN /\ currentStep' = stepIndex
         /\ UNCHANGED <<formData, completedSteps>>
    ELSE UNCHANGED wizardState

\* variant: any step in bounds may be jumped to
DoGoToStep_AnyInBounds(stepIndex) ==
    IF stepIndex >= 0 /\ stepIndex < totalSteps
    THEN /\ currentStep' = stepIndex
         /\ UNCHANGED <<formData, completedSteps>>
    ELSE UNCHANGED wizardState

DoGoToStep(stepIndex) ==
    LET isCompletedStep == Cardinality(completedSteps) >= stepIndex
        isNextAvailableStep == stepIndex = Cardinality(completedSteps)
    IN  IF /\ stepIndex >= 0
           /\ stepIndex < totalSteps
           /\ (isCompletedStep \/ isNextAvailableStep)
        THEN /\ currentStep' = stepIndex
             /\ UNCHANGED <<formData, completedSteps>>
        ELSE UNCHANGED wizardState

DoUpdateFormData(newData) ==
    /\ formData' = Merge(formData, newData)
    /\ UNCHANGED <<currentStep, completedSteps>>

\* variant: the completion record survives the reset
DoResetWizard_KeepsCompleted(newInitialData) ==
    /\ currentStep' = 0
    /\ formData' = newInitialData
    /\ UNCHANGED completedSteps

DoResetWizard(newInitialData) ==
    /\ currentStep' = 0
    /\ formData' = newInitialData
    /\ completedSteps' = {}

(***************************************************************************)
(* WizardProvider: the same functions called on their own by a consumer.   *)
(***************************************************************************)
goToNextStep ==
    /\ DoGoToNextStep
    /\ lastOp' = "goToNextStep"
    /\ UNCHANGED <<steps, props, isComplete, finalData>>

goToPrevStep ==
    /\ DoGoToPrevStep
    /\ lastOp' = "goToPrevStep"
    /\ UNCHANGED <<steps, props, isComplete, finalData>>

goToStep(stepIndex) ==
    /\ DoGoToStep(stepIndex)
    /\ lastOp' = "goToStep"
    /\ UNCHANGED <<steps, props, isComplete, finalData>>

updateFormData(newData) ==
    /\ DoUpdateFormData(newData)
    /\ lastOp' = "updateFormData"
    /\ UNCHANGED <<steps, props, isComplete, finalData>>

resetWizard(newInitialData) ==
    /\ DoResetWizard(newInitialData)
    /\ lastOp' = "resetWizard"
    /\ UNCHANGED <<steps, props, isComplete, finalData>>

(***************************************************************************)
(* CaptionGenerator: the host's validator and completion handler.          *)
(***************************************************************************)
\* variant: the niche step looks at the free-text niche only
validateStep_NicheInputOnly(stepIndex, data) ==
    CASE stepIndex = 0 ->
            Truthy(Get(data, "mediaUrl")) \/ Truthy(Get(data, "isTextOnly"))
      [] stepIndex = 1 -> Truthy(Get(data, "nicheInput"))
      [] stepIndex = 2 -> Truthy(Get(data, "platform"))
      [] stepIndex = 3 -> Truthy(Get(data, "goal"))
      [] stepIndex = 4 -> Truthy(Get(data, "tone"))
      [] OTHER -> TRUE

validateStep(stepIndex, data) ==
    CASE stepIndex = 0 ->
            Truthy(Get(data, "mediaUrl")) \/ Truthy(Get(data, "isTextOnly"))
      [] stepIndex = 1 ->
            Truthy(Get(data, "nicheInput")) \/ Truthy(Get(data, "nicheSelected"))
      [] stepIndex = 2 -> Truthy(Get(data, "platform"))
      [] stepIndex = 3 -> Truthy(Get(data, "goal"))
      [] stepIndex = 4 -> Truthy(Get(data, "tone"))
      [] OTHER -> TRUE

\* CaptionGenerator.handleComplete
onComplete(data) ==
    /\ isComplete' = TRUE
    /\ finalData' = data

(***************************************************************************)
(* WizardLayout: validation and the Previous / Next / Finish controls.     *)
(***************************************************************************)
canProceed ==
    IF props.validateStep
    THEN validateStep(currentStep, formData)
    ELSE CASE currentStep = 0 ->
                 Truthy(Get(formData, "mediaUrl")) \/ Truthy(Get(formData, "isTextOnly"))
           [] currentStep = 1 ->
                 Truthy(Get(formData, "nicheInput")) \/ Truthy(Get(formData, "nicheSelected"))
           [] OTHER -> TRUE

handleComplete ==
    IF props.onComplete /\ canProceed
    THEN onComplete(formData)
    ELSE UNCHANGED <<isComplete, finalData>>

handleNext ==
    IF canProceed
    THEN DoGoToNextStep
    ELSE UNCHANGED wizardState

\* variant: the button is wired to goToNextStep, without validation
NextButton_Unvalidated ==
    /\ IF isLastStep
       THEN handleComplete /\ UNCHANGED wizardState
       ELSE DoGoToNextStep /\ UNCHANGED <<isComplete, finalData>>
    /\ lastOp' = "NextButton"
    /\ UNCHANGED <<steps, props>>

\* variant: Finish is wired to onComplete, without validation
NextButton_FinishUnvalidated ==
    /\ IF isLastStep
       THEN /\ IF props.onComplete THEN onComplete(formData)
                                   ELSE UNCHANGED <<isComplete, finalData>>
            /\ UNCHANGED wizardState
       ELSE handleNext /\ UNCHANGED <<isComplete, finalData>>
    /\ lastOp' = "NextButton"
    /\ UNCHANGED <<steps, props>>

\* the Next/Finish button: disabled={!canProceed()},
\* onClick={isLastStep ? handleComplete : handleNext}
NextButton ==
    /\ IF ~canProceed
       THEN UNCHANGED <<wizardState, isComplete, finalData>>
       ELSE IF isLastStep
            THEN handleComplete /\ UNCHANGED wizardState
            ELSE handleNext /\ UNCHANGED <<isComplete, finalData>>
    /\ lastOp' = "NextButton"
    /\ UNCHANGED <<steps, props>>

\* the Previous button: disabled={isFirstStep}, onClick={goToPrevStep}
PrevButton ==
    /\ IF isFirstStep THEN UNCHANGED wizardState ELSE DoGoToPrevStep
    /\ lastOp' = "PrevButton"
    /\ UNCHANGED <<steps, props, isComplete, finalData>>

(***************************************************************************)
(* The wizard: every handler may run next.                                 *)
(***************************************************************************)
Next ==
    \/ goToNextStep /\ UNCHANGED stepVars
    \/ goToPrevStep /\ UNCHANGED stepVars
    \/ \E k \in StepArgs : goToStep(k) /\ UNCHANGED stepVars
    \/ \E p \in Patches : updateFormData(p) /\ UNCHANGED stepVars
    \/ \E d \in InitialDatas : resetWizard(d) /\ UNCHANGED stepVars
    \/ NextButton /\ UNCHANGED stepVars
    \/ PrevButton /\ UNCHANGED stepVars

Spec == Init /\ [][Next]_vars

(***************************************************************************)
(* The host's validateStep called on its own, on every step index and on   *)
(* every formData over the fields it reads.                                *)
(***************************************************************************)
ValidateKeys ==
    {"mediaUrl", "isTextOnly", "nicheInput", "nicheSelected",
     "platform", "goal", "tone"}

ValidateValuesOf(key) ==
    CASE key = "mediaUrl"      -> {"", "blob:1"}
      [] key = "isTextOnly"    -> {"true", "false"}
      [] key = "nicheInput"    -> {"", "Travel"}
      [] key = "nicheSelected" -> {"", "fitness"}
      [] key = "platform"      -> {"", "linkedin"}
      [] key = "goal"          -> {"", "drive_sales"}
      [] key = "tone"          -> {"", "casual"}

\* every formData in which each field is missing, empty (false) or set
ValidateDatas ==
    UNION { {d \in [ks -> UNION {ValidateValuesOf(k) : k \in ValidateKeys}] :
               \A k \in ks : d[k] \in ValidateValuesOf(k)} :
            ks \in SUBSET ValidateKeys }

\* the step indices: one below, those of WIZARD_STEPS, MaxIndexPast past them
ValidateIndices == (0 - 1)..(Len(WIZARD_STEPS) - 1 + MaxIndexPast)

InitValidate ==
    /\ steps = WIZARD_STEPS
    /\ props = [validateStep |-> TRUE, onComplete |-> TRUE,
                initialData |-> initialData]
    /\ currentStep = 0
    /\ formData = props.initialData
    /\ completedSteps = {}
    /\ isComplete = FALSE
    /\ finalData = Null
    /\ lastOp = "WizardProvider"
    /\ editor = EditorDefaults
    /\ objectUrls = {}
    /\ urlCount = 0
    /\ cropRect = NoCropRect
    /\ probe \in [stepIndex : ValidateIndices, data : ValidateDatas,
                   valid : {FALSE}]
    /\ prefs = NoPrefs

ValidateStepCall ==
    /\ lastOp # "validateStep"
    /\ probe' = [probe EXCEPT !.valid = validateStep(probe.stepIndex, probe.data)]
    /\ lastOp' = "validateStep"
    /\ UNCHANGED <<steps, props, wizardState, isComplete, finalData,
                   editor, objectUrls, urlCount, cropRect, prefs>>

NextValidate == ValidateStepCall

SpecValidate == InitValidate /\ [][NextValidate]_vars

(***************************************************************************)
(* UploadMediaStep on the host page: files, object URLs and the effect     *)
(* that restores the editing state from formData.                          *)
(***************************************************************************)
supportedTypes ==
    {"image/jpeg", "image/png", "image/gif", "image/webp",
     "video/mp4", "video/quicktime", "video/x-msvideo"}

MAX_FILE_SIZE == 50 * 1024 * 1024

filters ==
    {"none", "grayscale", "sepia", "invert", "blur", "brightness", "contrast"}

\* the files offered to the step: an image of exactly the maximum size, a
\* small video, a document, and an image one byte over the maximum
Files == {"photo.jpg", "clip.mp4", "notes.pdf", "huge.png"}

FileType(file) ==
    CASE file = "photo.jpg" -> "image/jpeg"
      [] file = "clip.mp4"  -> "video/mp4"
      [] file = "notes.pdf" -> "application/pdf"
      [] file = "huge.png"  -> "image/png"

FileSize(file) ==
    CASE file = "photo.jpg" -> MAX_FILE_SIZE
      [] file = "clip.mp4"  -> 1024
      [] file = "notes.pdf" -> 1024
      [] file = "huge.png"  -> MAX_FILE_SIZE + 1

\* file.type.startsWith('image/')
IsImageType(type) ==
    type \in {"image/jpeg", "image/png", "image/gif", "image/webp"}

\* the filter buttons pressed
FilterChoices == {"none", "grayscale", "sepia"}

Directions == {"clockwise", "counter-clockwise"}

\* a % b of JavaScript: the sign of the result is the sign of a
JsMod(a, b) == IF a >= 0 THEN a % b ELSE 0 - ((0 - a) % b)

\* URL.createObjectURL(file): a URL never handed out before
NewObjectUrl == "blob:" \o ToString(urlCount + 1)

\* the CaptionGenerator's initialData, with the media fields
uploadInitialData == Merge(initialData, [media |-> Null, mediaType |-> ""])

\* the step component is rendered: ActiveStepContent shows steps[currentStep]
UploadMounted == currentStep = 0 /\ StepId(0) = "upload_media"

\* the right section shows the editor: formData.mediaUrl && showEditor
EditorShown ==
    UploadMounted /\ Truthy(Get(formData, "mediaUrl")) /\ editor.showEditor

\* useEffect(..., [formData]): runs after a render with a new formData
RestoreFromFormData(ed, fd) ==
    IF Truthy(Get(fd, "mediaUrl"))
    THEN [ed EXCEPT
            !.showEditor = TRUE,
            !.filter = IF Truthy(Get(fd, "filter")) THEN fd["filter"] ELSE @,
            !.rotation = IF "rotation" \in DOMAIN fd /\ fd["rotation"] # 0
                         THEN fd["rotation"] ELSE @,
            !.textOverlay = IF Truthy(Get(fd, "textOverlay"))
                            THEN fd["textOverlay"] ELSE @,
            !.textPosition = IF "textPosition" \in DOMAIN fd
                             THEN fd["textPosition"] ELSE @,
            !.textRotation = IF "textRotation" \in DOMAIN fd
                             THEN fd["textRotation"] ELSE @]
    ELSE ed

\* what a handler of the step leaves alone besides what it names
UploadFrame == UNCHANGED <<steps, props, isComplete, finalData, probe, prefs>>

(***************************************************************************)
(* UploadMediaStep: selection, removal and the text-only choice.           *)
(***************************************************************************)
\* variant: the size of the file is not looked at
handleFileSelection_NoSizeLimit(file) ==
    /\ UploadMounted
    /\ IF FileType(file) \notin supportedTypes
       THEN /\ editor' = [editor EXCEPT !.error = "Unsupported file type. Please upload an image or video."]
            /\ UNCHANGED <<wizardState, objectUrls, urlCount>>
       ELSE /\ urlCount < MaxUrls
            /\ objectUrls' = objectUrls \cup {NewObjectUrl}
            /\ urlCount' = urlCount + 1
            /\ DoUpdateFormData(
                 [ media          |-> file,
                   mediaUrl       |-> NewObjectUrl,
                   mediaType      |-> IF IsImageType(FileType(file))
                                      THEN "image" ELSE "video",
                   filter         |-> "none",
                   rotation       |-> 0,
                   textOverlay    |-> "",
                   textPosition   |-> DefaultTextPosition,
                   filtersApplied |-> << >> ])
            /\ editor' = RestoreFromFormData(
                 [editor EXCEPT !.error = "",
                                !.filter = "none",
                                !.rotation = 0,
                                !.isCropping = FALSE,
                                !.isAddingText = FALSE,
                                !.textOverlay = "",
                                !.textPosition = DefaultTextPosition,
                                !.showEditor = TRUE],
                 formData')
    /\ lastOp' = "handleFileSelection"
    /\ UNCHANGED cropRect
    /\ UploadFrame

handleFileSelection(file) ==
    /\ UploadMounted
    /\ IF FileType(file) \notin supportedTypes
       THEN /\ editor' = [editor EXCEPT !.error = "Unsupported file type. Please upload an image or video."]
            /\ UNCHANGED <<wizardState, objectUrls, urlCount>>
       ELSE IF FileSize(file) > MAX_FILE_SIZE
       THEN /\ editor' = [editor EXCEPT !.error = "File is too large. Maximum size is 50MB."]
            /\ UNCHANGED <<wizardState, objectUrls, urlCount>>
       ELSE /\ urlCount < MaxUrls
            /\ objectUrls' = objectUrls \cup {NewObjectUrl}
            /\ urlCount' = urlCount + 1
            /\ DoUpdateFormData(
                 [ media          |-> file,
                   mediaUrl       |-> NewObjectUrl,
                   mediaType      |-> IF IsImageType(FileType(file))
                                      THEN "image" ELSE "video",
                   filter         |-> "none",
                   rotation       |-> 0,
                   textOverlay    |-> "",
                   textPosition   |-> DefaultTextPosition,
                   filtersApplied |-> << >> ])
            /\ editor' = RestoreFromFormData(
                 [editor EXCEPT !.error = "",
                                !.filter = "none",
                                !.rotation = 0,
                                !.isCropping = FALSE,
                                !.isAddingText = FALSE,
                                !.textOverlay = "",
                                !.textPosition = DefaultTextPosition,
                                !.showEditor = TRUE],
                 formData')
    /\ lastOp' = "handleFileSelection"
    /\ UNCHANGED cropRect
    /\ UploadFrame

removeMedia ==
    /\ EditorShown
    /\ objectUrls' = IF Truthy(Get(formData, "mediaUrl"))
                     THEN objectUrls \ {formData["mediaUrl"]}
                     ELSE objectUrls
    /\ DoUpdateFormData(
         [ media          |-> Null,
           mediaUrl       |-> "",
           mediaType      |-> "",
           filter         |-> "",
           rotation       |-> 0,
           textOverlay    |-> "",
           textPosition   |-> DefaultTextPosition,
           filtersApplied |-> << >> ])
    /\ editor' = RestoreFromFormData([editor EXCEPT !.showEditor = FALSE],
                                     formData')
    /\ lastOp' = "removeMedia"
    /\ UNCHANGED <<urlCount, cropRect>>
    /\ UploadFrame

\* variant: the text-only choice is recorded but the wizard does not advance
createTextOnlyCaption_Stays ==
    /\ UploadMounted
    /\ formData' = Merge(formData,
         [ media      |-> Null,
           mediaUrl   |-> "",
           mediaType  |-> "text-only",
           isTextOnly |-> "true" ])
    /\ UNCHANGED <<completedSteps, currentStep>>
    /\ editor' = RestoreFromFormData(editor, formData')
    /\ lastOp' = "createTextOnlyCaption"
    /\ UNCHANGED <<objectUrls, urlCount, cropRect>>
    /\ UploadFrame

\* updateFormData({...}) and then goToNextStep(), both with the values of
\* the render the button was pressed in; leaving step 0 unmounts the step
createTextOnlyCaption ==
    /\ UploadMounted
    /\ formData' = Merge(formData,
         [ media      |-> Null,
           mediaUrl   |-> "",
           mediaType  |-> "text-only",
           isTextOnly |-> "true" ])
    /\ IF currentStep < totalSteps - 1
       THEN /\ completedSteps' = completedSteps \cup {currentStepId}
            /\ currentStep' = currentStep + 1
       ELSE UNCHANGED <<completedSteps, currentStep>>
    /\ editor' = IF currentStep' = 0
                 THEN RestoreFromFormData(editor, formData')
                 ELSE EditorDefaults
    /\ lastOp' = "createTextOnlyCaption"
    /\ UNCHANGED <<objectUrls, urlCount, cropRect>>
    /\ UploadFrame

(***************************************************************************)
(* UploadMediaStep: filter, rotation, reset and save.                      *)
(***************************************************************************)
\* variant: the filter is logged without looking for it in the log
applyFilter_AlwaysAppends(filterId) ==
    /\ EditorShown
    /\ LET filtersApplied == IF "filtersApplied" \in DOMAIN formData
                             THEN formData["filtersApplied"] ELSE << >>
       IN  IF filterId # "none"
           THEN DoUpdateFormData(
                  [ filter         |-> filterId,
                    filtersApplied |-> Append(filtersApplied, filterId) ])
           ELSE DoUpdateFormData([filter |-> filterId])
    /\ editor' = RestoreFromFormData([editor EXCEPT !.filter = filterId],
                                     formData')
    /\ lastOp' = "applyFilter"
    /\ UNCHANGED <<objectUrls, urlCount, cropRect>>
    /\ UploadFrame

applyFilter(filterId) ==
    /\ EditorShown
    /\ LET filtersApplied == IF "filtersApplied" \in DOMAIN formData
                             THEN formData["filtersApplied"] ELSE << >>
           includes == \E i \in 1..Len(filtersApplied) :
                          filtersApplied[i] = filterId
       IN  IF filterId # "none" /\ ~includes
           THEN DoUpdateFormData(
                  [ filter         |-> filterId,
                    filtersApplied |-> Append(filtersApplied, filterId) ])
           ELSE DoUpdateFormData([filter |-> filterId])
    /\ editor' = RestoreFromFormData([editor EXCEPT !.filter = filterId],
                                     formData')
    /\ lastOp' = "applyFilter"
    /\ UNCHANGED <<objectUrls, urlCount, cropRect>>
    /\ UploadFrame

\* variant: the counter-clockwise turn without the + 360
newRotation_NoWrap(rotation, direction) ==
    IF direction = "clockwise"
    THEN JsMod(rotation + 90, 360)
    ELSE JsMod(rotation - 90, 360)

newRotation(rotation, direction) ==
    IF direction = "clockwise"
    THEN JsMod(rotation + 90, 360)
    ELSE JsMod(rotation - 90 + 360, 360)

rotateMedia(direction) ==
    /\ EditorShown
    /\ DoUpdateFormData(
         [rotation |-> newRotation(editor.rotation, direction)])
    /\ editor' = RestoreFromFormData(
         [editor EXCEPT !.rotation = newRotation(editor.rotation, direction)],
         formData')
    /\ lastOp' = "rotateMedia"
    /\ UNCHANGED <<objectUrls, urlCount, cropRect>>
    /\ UploadFrame

resetEdits ==
    /\ EditorShown
    /\ DoUpdateFormData(
         [ filter         |-> "none",
           rotation       |-> 0,
           textRotation   |-> 0,
           textOverlay    |-> "",
           textPosition   |-> DefaultTextPosition,
           filtersApplied |-> << >> ])
    /\ editor' = RestoreFromFormData(
         [editor EXCEPT !.filter = "none",
                        !.rotation = 0,
                        !.textRotation = 0,
                        !.isCropping = FALSE,
                        !.isAddingText = FALSE,
                        !.textOverlay = "",
                        !.textPosition = DefaultTextPosition],
         formData')
    /\ lastOp' = "resetEdits"
    /\ UNCHANGED <<objectUrls, urlCount, cropRect>>
    /\ UploadFrame

saveEdits ==
    /\ EditorShown
    /\ DoUpdateFormData(
         [ editsSaved   |-> "true",
           textOverlay  |-> editor.textOverlay,
           textPosition |-> editor.textPosition,
           textRotation |-> editor.textRotation,
           filter       |-> editor.filter,
           rotation     |-> editor.rotation ])
    /\ editor' = RestoreFromFormData(editor, formData')
    /\ lastOp' = "saveEdits"
    /\ UNCHANGED <<objectUrls, urlCount, cropRect>>
    /\ UploadFrame

(***************************************************************************)
(* UploadMediaStep: the crop gesture on the media preview.  A pointer      *)
(* position is normalized to the container as the code does, in hundredths *)
(* (1.0 is 100); the preview dispatches a pointer event to the crop        *)
(* handlers only when no text drag or text rotation is in progress.        *)
(***************************************************************************)
minSize == 5

Min(a, b) == IF a <= b THEN a ELSE b

Max(a, b) == IF a >= b THEN a ELSE b

\* Math.min(Math.max(v, 0), 1)
Clamp01(v) == Min(Max(v, 0), 100)

Abs(v) == IF v >= 0 THEN v ELSE 0 - v

\* pointer positions inside the container
PointerPoints ==
    { [x |-> 0, y |-> 0], [x |-> 3, y |-> 100], [x |-> 100, y |-> 100] }

\* pointer positions reported by a move: inside, and past the top right
MovePoints == PointerPoints \cup { [x |-> 120, y |-> 0 - 20] }

\* onMouseMove / onMouseUp / onMouseLeave reach the crop handlers
CropDispatch ==
    /\ EditorShown
    /\ ~editor.isDraggingText
    /\ ~editor.isRotatingText
    /\ editor.isCropping

\* imageRef.current: the <img ref={imageRef}> is rendered for image media
\* while no crop preview is shown
imageRefCurrent ==
    editor.cropPreview = Null /\ Get(formData, "mediaType") = "image"

\* canvas.toDataURL(formData.media.type)
CroppedUrl == "data:" \o FileType(formData["media"])

normalizedCrop(cropStart, cropEnd) ==
    [ startX |-> Min(cropStart.x, cropEnd.x),
      startY |-> Min(cropStart.y, cropEnd.y),
      endX   |-> Max(cropStart.x, cropEnd.x),
      endY   |-> Max(cropStart.y, cropEnd.y) ]

\* onMouseDown={(e) => { if (isCropping) handleCropStart(e); }}
handleCropStart(pt) ==
    /\ EditorShown
    /\ editor.isCropping
    /\ editor' = [editor EXCEPT !.cropStart = pt, !.cropEnd = pt]
    /\ lastOp' = "handleCropStart"
    /\ UNCHANGED <<wizardState, objectUrls, urlCount, cropRect>>
    /\ UploadFrame

handleCropMove(pt) ==
    /\ CropDispatch
    /\ editor' = [editor EXCEPT
                    !.cropEnd = [x |-> Clamp01(pt.x), y |-> Clamp01(pt.y)]]
    /\ lastOp' = "handleCropMove"
    /\ UNCHANGED <<wizardState, objectUrls, urlCount, cropRect>>
    /\ UploadFrame

\* variant: a gesture is too small only when it is small on both axes
handleCropEnd_BothAxes ==
    /\ CropDispatch
    /\ IF /\ Abs(editor.cropEnd.x - editor.cropStart.x) < minSize
          /\ Abs(editor.cropEnd.y - editor.cropStart.y) < minSize
       THEN UNCHANGED <<editor, cropRect>>
       ELSE IF imageRefCurrent
       THEN /\ editor' = [editor EXCEPT !.cropPreview = CroppedUrl]
            /\ cropRect' = normalizedCrop(editor.cropStart, editor.cropEnd)
       ELSE UNCHANGED <<editor, cropRect>>
    /\ lastOp' = "handleCropEnd"
    /\ UNCHANGED <<wizardState, objectUrls, urlCount>>
    /\ UploadFrame

handleCropEnd ==
    /\ CropDispatch
    /\ IF \/ Abs(editor.cropEnd.x - editor.cropStart.x) < minSize
          \/ Abs(editor.cropEnd.y - editor.cropStart.y) < minSize
       THEN UNCHANGED <<editor, cropRect>>
       ELSE IF imageRefCurrent
       THEN /\ editor' = [editor EXCEPT !.cropPreview = CroppedUrl]
            /\ cropRect' = normalizedCrop(editor.cropStart, editor.cropEnd)
       ELSE UNCHANGED <<editor, cropRect>>
    /\ lastOp' = "handleCropEnd"
    /\ UNCHANGED <<wizardState, objectUrls, urlCount>>
    /\ UploadFrame

\* variant: the crop is installed without releasing the URL it replaces
applyCrop_NoRevoke ==
    /\ EditorShown
    /\ IF editor.cropPreview # Null
       THEN /\ UNCHANGED objectUrls
            /\ DoUpdateFormData([mediaUrl |-> editor.cropPreview])
            /\ editor' = RestoreFromFormData(
                 [editor EXCEPT !.isCropping = FALSE, !.cropPreview = Null],
                 formData')
       ELSE UNCHANGED <<wizardState, editor, objectUrls>>
    /\ lastOp' = "applyCrop"
    /\ UNCHANGED <<urlCount, cropRect>>
    /\ UploadFrame

\* applyCrop does nothing unless a crop preview is pending
applyCrop ==
    /\ EditorShown
    /\ IF editor.cropPreview # Null
       THEN /\ objectUrls' = IF Truthy(Get(formData, "mediaUrl"))
                             THEN objectUrls \ {formData["mediaUrl"]}
                             ELSE objectUrls
            /\ DoUpdateFormData([mediaUrl |-> editor.cropPreview])
            /\ editor' = RestoreFromFormData(
                 [editor EXCEPT !.isCropping = FALSE, !.cropPreview = Null],
                 formData')
       ELSE UNCHANGED <<wizardState, editor, objectUrls>>
    /\ lastOp' = "applyCrop"
    /\ UNCHANGED <<urlCount, cropRect>>
    /\ UploadFrame

\* the Cancel button is rendered while cropPreview is set
cancelCrop ==
    /\ EditorShown
    /\ editor.cropPreview # Null
    /\ editor' = [editor EXCEPT !.isCropping = FALSE, !.cropPreview = Null]
    /\ lastOp' = "cancelCrop"
    /\ UNCHANGED <<wizardState, objectUrls, urlCount, cropRect>>
    /\ UploadFrame

toggleCropMode ==
    /\ EditorShown
    /\ editor' = IF editor.isCropping
                 THEN [editor EXCEPT !.isCropping = FALSE, !.cropPreview = Null]
                 ELSE [editor EXCEPT !.isCropping = TRUE, !.isAddingText = FALSE]
    /\ lastOp' = "toggleCropMode"
    /\ UNCHANGED <<wizardState, objectUrls, urlCount, cropRect>>
    /\ UploadFrame

(***************************************************************************)
(* UploadMediaStep: the text mode and the text itself.                     *)
(***************************************************************************)
\* the texts typed into the textarea
Texts == {"", "Hi"}

\* variant: entering the text mode leaves the crop mode as it is
toggleTextMode_KeepsCrop ==
    /\ EditorShown
    /\ IF editor.isAddingText
       THEN IF Truthy(editor.textOverlay)
            THEN /\ DoUpdateFormData(
                      [ textOverlay  |-> editor.textOverlay,
                        textPosition |-> editor.textPosition,
                        textRotation |-> editor.textRotation ])
                 /\ editor' = RestoreFromFormData(
                      [editor EXCEPT !.isAddingText = FALSE], formData')
            ELSE /\ editor' = [editor EXCEPT !.isAddingText = FALSE]
                 /\ UNCHANGED wizardState
       ELSE /\ editor' = [editor EXCEPT !.isAddingText = TRUE]
            /\ UNCHANGED wizardState
    /\ lastOp' = "toggleTextMode"
    /\ UNCHANGED <<objectUrls, urlCount, cropRect>>
    /\ UploadFrame

toggleTextMode ==
    /\ EditorShown
    /\ IF editor.isAddingText
       THEN IF Truthy(editor.textOverlay)
            THEN /\ DoUpdateFormData(
                      [ textOverlay  |-> editor.textOverlay,
                        textPosition |-> editor.textPosition,
                        textRotation |-> editor.textRotation ])
                 /\ editor' = RestoreFromFormData(
                      [editor EXCEPT !.isAddingText = FALSE], formData')
            ELSE /\ editor' = [editor EXCEPT !.isAddingText = FALSE]
                 /\ UNCHANGED wizardState
       ELSE /\ editor' = [editor EXCEPT !.isAddingText = TRUE,
                                        !.isCropping = FALSE]
            /\ UNCHANGED wizardState
    /\ lastOp' = "toggleTextMode"
    /\ UNCHANGED <<objectUrls, urlCount, cropRect>>
    /\ UploadFrame

\* the textarea is rendered while the text mode is on
handleTextChange(value) ==
    /\ EditorShown
    /\ editor.isAddingText
    /\ DoUpdateFormData([textOverlay |-> value])
    /\ editor' = RestoreFromFormData([editor EXCEPT !.textOverlay = value],
                                     formData')
    /\ lastOp' = "handleTextChange"
    /\ UNCHANGED <<objectUrls, urlCount, cropRect>>
    /\ UploadFrame

(***************************************************************************)
(* UploadMediaStep: moving and rotating the text overlay with the pointer. *)
(* Pointer positions are percentages of the container, the unit of         *)
(* textPosition.  handleTextDragEnd and handleRotationEnd are what both    *)
(* onMouseUp and onMouseLeave of the preview call.                         *)
(***************************************************************************)
\* the text overlay is rendered: {textOverlay && (<div ...>)}
TextOverlayShown == EditorShown /\ Truthy(editor.textOverlay)

\* the rotation handle is rendered inside the overlay: {isAddingText && ...}
RotationHandleShown == TextOverlayShown /\ editor.isAddingText

\* pointer positions during a rotation, as offsets from the text's centre:
\* below it and left of it
RotationOffsets == { [dx |-> 0, dy |-> 10], [dx |-> 0 - 10, dy |-> 0] }

\* Math.atan2(dy, dx) * (180 / Math.PI), on the axes
Atan2Deg(dy, dx) ==
    CASE dy = 0 /\ dx >= 0 -> 0
      [] dy > 0 /\ dx = 0  -> 90
      [] dy = 0 /\ dx < 0  -> 180
      [] dy < 0 /\ dx = 0  -> 0 - 90

\* Math.max(0, Math.min(100, v))
Clamp100(v) == Max(0, Min(100, v))

\* handleTextPositionChange(x, y), with the effect that follows its update
DoTextPositionChange(x, y) ==
    LET newPosition == [x |-> Clamp100(x), y |-> Clamp100(y)]
    IN  /\ DoUpdateFormData([textPosition |-> newPosition])
        /\ editor' = RestoreFromFormData(
             [editor EXCEPT !.textPosition = newPosition], formData')

positionTextAtBottom ==
    /\ EditorShown
    /\ editor.isAddingText
    /\ DoUpdateFormData([textPosition |-> [x |-> 50, y |-> 90]])
    /\ editor' = RestoreFromFormData(
         [editor EXCEPT !.textPosition = [x |-> 50, y |-> 90]], formData')
    /\ lastOp' = "positionTextAtBottom"
    /\ UNCHANGED <<objectUrls, urlCount, cropRect>>
    /\ UploadFrame

\* the Reset rotation button of the text controls
resetTextRotation ==
    /\ EditorShown
    /\ editor.isAddingText
    /\ DoUpdateFormData([textRotation |-> 0])
    /\ editor' = RestoreFromFormData([editor EXCEPT !.textRotation = 0],
                                     formData')
    /\ lastOp' = "resetTextRotation"
    /\ UNCHANGED <<objectUrls, urlCount, cropRect>>
    /\ UploadFrame

\* onMouseDown of the text overlay; outside the text mode the handler returns
\* before stopPropagation and the press reaches the preview's onMouseDown
handleTextDragStart(pt) ==
    /\ TextOverlayShown
    /\ editor' =
         IF editor.isAddingText
         THEN [editor EXCEPT
                 !.dragStartPos = [ mouseX |-> pt.x, mouseY |-> pt.y,
                                    textX  |-> editor.textPosition.x,
                                    textY  |-> editor.textPosition.y ],
                 !.isDraggingText = TRUE]
         ELSE IF editor.isCropping
         THEN [editor EXCEPT !.cropStart = pt, !.cropEnd = pt]
         ELSE editor
    /\ lastOp' = "handleTextDragStart"
    /\ UNCHANGED <<wizardState, objectUrls, urlCount, cropRect>>
    /\ UploadFrame

\* onMouseMove of the preview while isDraggingText
handleTextDragMove(pt) ==
    /\ EditorShown
    /\ editor.isDraggingText
    /\ IF editor.isAddingText
       THEN DoTextPositionChange(
              editor.dragStartPos.textX + (pt.x - editor.dragStartPos.mouseX),
              editor.dragStartPos.textY + (pt.y - editor.dragStartPos.mouseY))
       ELSE UNCHANGED <<wizardState, editor>>
    /\ lastOp' = "handleTextDragMove"
    /\ UNCHANGED <<objectUrls, urlCount, cropRect>>
    /\ UploadFrame

\* onMouseUp / onMouseLeave of the preview while isDraggingText
handleTextDragEnd ==
    /\ EditorShown
    /\ editor.isDraggingText
    /\ DoUpdateFormData([textPosition |-> editor.textPosition])
    /\ editor' = RestoreFromFormData(
         [editor EXCEPT !.isDraggingText = FALSE], formData')
    /\ lastOp' = "handleTextDragEnd"
    /\ UNCHANGED <<objectUrls, urlCount, cropRect>>
    /\ UploadFrame

\* onMouseDown of the rotation handle
handleRotationStart ==
    /\ RotationHandleShown
    /\ editor' = [editor EXCEPT !.isRotatingText = TRUE]
    /\ lastOp' = "handleRotationStart"
    /\ UNCHANGED <<wizardState, objectUrls, urlCount, cropRect>>
    /\ UploadFrame

\* onMouseMove of the preview while isRotatingText and not isDraggingText
handleRotationMove(offset) ==
    /\ EditorShown
    /\ ~editor.isDraggingText
    /\ editor.isRotatingText
    /\ editor' = IF editor.isAddingText
                 THEN [editor EXCEPT
                         !.textRotation = Atan2Deg(offset.dy, offset.dx)]
                 ELSE editor
    /\ lastOp' = "handleRotationMove"
    /\ UNCHANGED <<wizardState, objectUrls, urlCount, cropRect>>
    /\ UploadFrame

\* onMouseUp / onMouseLeave of the preview while isRotatingText and not
\* isDraggingText
handleRotationEnd ==
    /\ EditorShown
    /\ ~editor.isDraggingText
    /\ editor.isRotatingText
    /\ DoUpdateFormData([textRotation |-> editor.textRotation])
    /\ editor' = RestoreFromFormData(
         [editor EXCEPT !.isRotatingText = FALSE], formData')
    /\ lastOp' = "handleRotationEnd"
    /\ UNCHANGED <<objectUrls, urlCount, cropRect>>
    /\ UploadFrame

(***************************************************************************)
(* The host page around the step: the Layout's buttons mount and unmount   *)
(* the step component as currentStep enters and leaves step 0.             *)
(***************************************************************************)
Remount ==
    editor' = IF currentStep' # 0 THEN EditorDefaults
              ELSE IF currentStep = 0 THEN editor
              ELSE RestoreFromFormData(EditorDefaults, formData')

InitUpload ==
    /\ steps = WIZARD_STEPS
    /\ props = [validateStep |-> TRUE, onComplete |-> TRUE,
                initialData |-> uploadInitialData]
    /\ currentStep = 0
    /\ formData = props.initialData
    /\ completedSteps = {}
    /\ isComplete = FALSE
    /\ finalData = Null
    /\ lastOp = "WizardProvider"
    /\ editor = RestoreFromFormData(EditorDefaults, formData)
    /\ objectUrls = {}
    /\ urlCount = 0
    /\ cropRect = NoCropRect
    /\ probe = NoProbe
    /\ prefs = NoPrefs

NextUpload ==
    \/ \E file \in Files : handleFileSelection(file)
    \/ removeMedia
    \/ createTextOnlyCaption
    \/ \E f \in FilterChoices : applyFilter(f)
    \/ \E d \in Directions : rotateMedia(d)
    \/ resetEdits
    \/ saveEdits
    \/ NextButton /\ Remount /\ UNCHANGED <<objectUrls, urlCount, cropRect, probe, prefs>>
    \/ PrevButton /\ Remount /\ UNCHANGED <<objectUrls, urlCount, cropRect, probe, prefs>>

SpecUpload == InitUpload /\ [][NextUpload]_vars

(***************************************************************************)
(* The step with its crop mode.  The filter and rotation handlers write    *)
(* only filter, rotation and filtersApplied, which no crop handler reads,  *)
(* and are left to SpecUpload.                                             *)
(***************************************************************************)
\* the files of Files that the step accepts
MediaFiles == {"photo.jpg", "clip.mp4"}

NextCrop ==
    \/ \E file \in MediaFiles : handleFileSelection(file)
    \/ removeMedia
    \/ createTextOnlyCaption
    \/ resetEdits
    \/ toggleCropMode
    \/ \E pt \in PointerPoints : handleCropStart(pt)
    \/ \E pt \in MovePoints : handleCropMove(pt)
    \/ handleCropEnd
    \/ applyCrop
    \/ cancelCrop
    \/ toggleTextMode
    \/ NextButton /\ Remount /\ UNCHANGED <<objectUrls, urlCount, cropRect, probe, prefs>>
    \/ PrevButton /\ Remount /\ UNCHANGED <<objectUrls, urlCount, cropRect, probe, prefs>>

SpecCrop == InitUpload /\ [][NextCrop]_vars

(***************************************************************************)
(* The step with its text mode: typing the text, moving and rotating it.   *)
(* The text is pressed at its centre.                                      *)
(***************************************************************************)
\* the file the text is laid over
TextFiles == {"photo.jpg"}

NextText ==
    \/ \E file \in TextFiles : handleFileSelection(file)
    \/ resetEdits
    \/ toggleTextMode
    \/ \E v \in Texts : handleTextChange(v)
    \/ positionTextAtBottom
    \/ resetTextRotation
    \/ handleTextDragStart(editor.textPosition)
    \/ \E pt \in MovePoints : handleTextDragMove(pt)
    \/ handleTextDragEnd
    \/ handleRotationStart
    \/ \E offset \in RotationOffsets : handleRotationMove(offset)
    \/ handleRotationEnd
    \/ NextButton /\ Remount /\ UNCHANGED <<objectUrls, urlCount, cropRect, probe, prefs>>
    \/ PrevButton /\ Remount /\ UNCHANGED <<objectUrls, urlCount, cropRect, probe, prefs>>

SpecText == InitUpload /\ [][NextText]_vars

(***************************************************************************)
(* PlatformStep, GoalStep, ToneStep: the selection, and the asynchronous   *)
(* load and save of the user's last choice.  The three components have the *)
(* same code over the fields platform, goal and tone.  A load is in flight *)
(* from the effect that dispatched it until its continuation has run; it   *)
(* carries the formData value its closure saw.  The component's own        *)
(* selectedPlatform / selectedGoal / selectedTone is display state and is  *)
(* left out.                                                               *)
(***************************************************************************)
MaxLoads == 3

\* the index of the step that fills a field
PrefStep(field) ==
    CASE field = "platform" -> 2
      [] field = "goal"     -> 3
      [] field = "tone"     -> 4

\* the preference found in the user's document when the wizard starts
SavedId(field) ==
    CASE field = "platform" -> "linkedin"
      [] field = "goal"     -> "grow_audience"
      [] field = "tone"     -> "professional"

\* the option the user clicks
ClickedId(field) ==
    CASE field = "platform" -> "instagram"
      [] field = "goal"     -> "drive_sales"
      [] field = "tone"     -> "casual"

\* the host's initialData with the fields of the three steps
prefsInitialData ==
    Merge(uploadInitialData,
          [nicheSelected |-> "", niche |-> "", platform |-> "", goal |-> "",
           tone |-> ""])

\* the step component rendered after the action is one of the three
MountedField(stepIndex) ==
    {f \in PrefFields : PrefStep(f) = stepIndex /\ stepIndex < totalSteps}

\* useEffect(..., [formData, user, updateFormData]) of the mounted step: it
\* runs on mount and after every change of formData, and calls
\* loadUserPreferences(), which returns at once when nobody is signed in
EffectRuns ==
    /\ MountedField(currentStep') # {}
    /\ currentStep' # currentStep \/ formData' # formData

AfterEffect(pr) ==
    IF EffectRuns /\ pr.user
    THEN [pr EXCEPT
            !.loads = @ \cup { [ field |-> f, seen |-> formData'[f],
                                 phase |-> "sent", doc |-> "" ] :
                               f \in MountedField(currentStep') },
            !.sent = @ + 1]
    ELSE pr

\* the loads dispatched are counted up to MaxLoads
EffectAllowed == (EffectRuns /\ prefs.user) => prefs.sent < MaxLoads

PrefsFrame ==
    UNCHANGED <<steps, props, isComplete, finalData, editor, objectUrls,
                urlCount, cropRect, probe>>

\* SelectNicheStep: a predefined niche is clicked
handleNicheSelect ==
    /\ currentStep = 1
    /\ StepId(1) = "select_niche"
    /\ DoUpdateFormData(
         [nicheSelected |-> "business", nicheInput |-> "Business",
          niche |-> "Business"])
    /\ lastOp' = "handleNicheSelect"
    /\ UNCHANGED prefs
    /\ PrefsFrame

\* handlePlatformSelect / handleGoalSelect / handleToneSelect
DoPrefSelect(field, id) ==
    /\ MountedField(currentStep) = {field}
    /\ DoUpdateFormData([f \in {field} |-> id])
    /\ EffectAllowed
    /\ prefs' = AfterEffect(
         [prefs EXCEPT
            !.byUser = @ \cup {field},
            !.writes = IF prefs.user
                       THEN @ \cup {[field |-> field, value |-> id]}
                       ELSE @])
    /\ PrefsFrame

handlePlatformSelect(platformId) ==
    DoPrefSelect("platform", platformId) /\ lastOp' = "handlePlatformSelect"

handleGoalSelect(goalId) ==
    DoPrefSelect("goal", goalId) /\ lastOp' = "handleGoalSelect"

handleToneSelect(toneId) ==
    DoPrefSelect("tone", toneId) /\ lastOp' = "handleToneSelect"

\* await updateDoc(userDocRef, {'preferences.<field>': id}) reaches the server
updateDoc(write) ==
    /\ write \in prefs.writes
    /\ prefs' = [prefs EXCEPT !.writes = @ \ {write},
                              !.saved[write.field] = write.value]
    /\ lastOp' = "updateDoc"
    /\ UNCHANGED wizardState
    /\ PrefsFrame

\* await getDoc(userDocRef): the server reads the document
getDoc(load) ==
    /\ load \in prefs.loads
    /\ load.phase = "sent"
    /\ prefs' = [prefs EXCEPT
                   !.loads = (@ \ {load}) \cup
                             {[load EXCEPT !.phase = "got",
                                           !.doc = prefs.saved[load.field]]}]
    /\ lastOp' = "getDoc"
    /\ UNCHANGED wizardState
    /\ PrefsFrame

\* loadUserPreferences after the await: `formData` is the value of the render
\* whose effect dispatched the load
loadUserPreferences(load) ==
    /\ load \in prefs.loads
    /\ load.phase = "got"
    /\ IF Truthy(load.doc) /\ ~Truthy(load.seen)
       THEN /\ DoUpdateFormData([f \in {load.field} |-> load.doc])
            /\ EffectAllowed
            /\ prefs' = AfterEffect(
                 [prefs EXCEPT !.loads = @ \ {load},
                               !.byUser = @ \ {load.field}])
       ELSE /\ UNCHANGED wizardState
            /\ prefs' = [prefs EXCEPT !.loads = @ \ {load}]
    /\ lastOp' = "loadUserPreferences"
    /\ PrefsFrame

\* the Layout's buttons, with the effect of the step that mounts
PrefsNextButton ==
    /\ NextButton
    /\ EffectAllowed
    /\ prefs' = AfterEffect(prefs)
    /\ UNCHANGED <<editor, objectUrls, urlCount, cropRect, probe>>

PrefsPrevButton ==
    /\ PrevButton
    /\ EffectAllowed
    /\ prefs' = AfterEffect(prefs)
    /\ UNCHANGED <<editor, objectUrls, urlCount, cropRect, probe>>

InitPrefs ==
    /\ steps = WIZARD_STEPS
    /\ props = [validateStep |-> TRUE, onComplete |-> TRUE,
                initialData |-> prefsInitialData]
    /\ currentStep = 0
    /\ formData = props.initialData
    /\ completedSteps = {}
    /\ isComplete = FALSE
    /\ finalData = Null
    /\ lastOp = "WizardProvider"
    /\ editor = EditorDefaults
    /\ objectUrls = {}
    /\ urlCount = 0
    /\ cropRect = NoCropRect
    /\ probe = NoProbe
    /\ \E user \in BOOLEAN :
       \E saved \in [PrefFields -> {"", "saved"}] :
          prefs = [NoPrefs EXCEPT
                     !.user = user,
                     !.saved = [f \in PrefFields |->
                                  IF saved[f] = "saved" THEN SavedId(f)
                                  ELSE ""]]

NextPrefs ==
    \/ createTextOnlyCaption
    \/ handleNicheSelect
    \/ handlePlatformSelect(ClickedId("platform"))
    \/ handleGoalSelect(ClickedId("goal"))
    \/ handleToneSelect(ClickedId("tone"))
    \/ \E write \in prefs.writes : updateDoc(write)
    \/ \E load \in prefs.loads : getDoc(load)
    \/ \E load \in prefs.loads : loadUserPreferences(load)
    \/ PrefsNextButton
    \/ PrefsPrevButton

SpecPrefs == InitPrefs /\ [][NextPrefs]_vars

(***************************************************************************)
(* Properties of the wizard state machine.                                 *)
(***************************************************************************)

\* C1: for a wizard with at least one step, currentStep is always an integer
\* with 0 <= currentStep <= totalSteps - 1, whatever navigation, update or
\* reset has run.
C1_CurrentStepInRange ==
    totalSteps > 0 =>
        /\ currentStep \in Int
        /\ 0 <= currentStep
        /\ currentStep <= totalSteps - 1

C1_Witness ==
    /\ totalSteps > 1
    /\ currentStep = totalSteps - 1
    /\ lastOp = "goToStep"

\* C2: goToNextStep from an index i < n-1 moves to i+1 and records steps[i],
\* the step being left, as completed; the step being entered, steps[i+1], is
\* not added by that call.
C2_NextCompletesStepLeft ==
    [][goToNextStep /\ currentStep < totalSteps - 1 =>
          /\ currentStep' = currentStep + 1
          /\ StepId(currentStep) \in completedSteps'
          /\ (StepId(currentStep + 1) \in completedSteps'
                => StepId(currentStep + 1) \in completedSteps)
          /\ completedSteps' = completedSteps \cup {StepId(currentStep)}]_vars

C2_Witness ==
    /\ lastOp = "goToNextStep"
    /\ currentStep >= 1
    /\ StepId(currentStep - 1) \in completedSteps
    /\ StepId(currentStep) \notin completedSteps

\* C3: goToNextStep on the last step changes nothing: currentStep,
\* completedSteps and formData are as before, and the last step's id is not
\* added to completedSteps.
C3_NextOnLastStepNoOp ==
    [][goToNextStep /\ currentStep = totalSteps - 1 =>
          UNCHANGED <<currentStep, completedSteps, formData>>]_vars

C3_Witness ==
    /\ lastOp = "goToNextStep"
    /\ totalSteps = 1
    /\ currentStep = totalSteps - 1
    /\ StepId(currentStep) \notin completedSteps

\* C4: goToPrevStep changes nothing on the first step and otherwise
\* decrements currentStep by exactly 1; completedSteps and formData are
\* unchanged either way.
C4_PrevDecrementsOrNoOp ==
    [][goToPrevStep \/ PrevButton =>
          /\ currentStep' = IF currentStep = 0 THEN currentStep
                            ELSE currentStep - 1
          /\ UNCHANGED <<completedSteps, formData>>]_vars

C4_Witness ==
    /\ lastOp = "goToPrevStep"
    /\ currentStep = 0
    /\ StepId(0) \in completedSteps

\* C5: without a reset, completedSteps only grows: a step id that is
\* completed stays completed through goToNextStep, goToPrevStep, goToStep,
\* updateFormData and the Layout's buttons.
C5_CompletionMonotonic ==
    [][lastOp' # "resetWizard" => completedSteps \subseteq completedSteps']_vars

C5_Witness ==
    /\ lastOp \in {"goToPrevStep", "goToStep"}
    /\ currentStep = 0
    /\ Cardinality(completedSteps) >= 2

\* C6: goToStep(k) moves to k exactly when k is within bounds and step k is
\* already completed or k is the number of completed steps; in every other
\* case currentStep, completedSteps and formData are unchanged.
C6_GoToStepRule ==
    [][\A k \in StepArgs :
          goToStep(k) =>
            IF /\ k >= 0
               /\ k < totalSteps
               /\ (isStepCompleted(k) \/ k = Cardinality(completedSteps))
            THEN /\ currentStep' = k
                 /\ UNCHANGED <<completedSteps, formData>>
            ELSE UNCHANGED <<currentStep, completedSteps, formData>>]_vars

C6_Witness ==
    /\ lastOp = "goToStep"
    /\ currentStep >= 2
    /\ currentStep = Cardinality(completedSteps)
    /\ ~isStepCompleted(currentStep)

\* C7: updateFormData(patch) merges: every key of the patch then maps to
\* the patch's value, every other key of the previous formData keeps its
\* value, no other key appears, and currentStep and completedSteps are
\* unchanged.
C7_UpdateMerges ==
    [][lastOp' = "updateFormData" => \A p \in Patches :
          updateFormData(p) =>
            /\ DOMAIN formData' = DOMAIN formData \cup DOMAIN p
            /\ \A k \in DOMAIN p : formData'[k] = p[k]
            /\ \A k \in DOMAIN formData \ DOMAIN p : formData'[k] = formData[k]
            /\ UNCHANGED <<currentStep, completedSteps>>]_vars

C7_Witness ==
    /\ lastOp = "updateFormData"
    /\ DOMAIN formData = DataKeys
    /\ \A k \in DataKeys : Truthy(formData[k])
    /\ currentStep > 0

\* C8: after construction, and after reset(d) from any state, the wizard is
\* at currentStep 0 with no completed step and formData equal to the data
\* supplied (the empty mapping by default).
C8_ResetIsFreshInitialize ==
    /\ (currentStep = 0 /\ completedSteps = {} /\ formData = props.initialData)
    /\ [][\A d \in InitialDatas :
            resetWizard(d) =>
              /\ currentStep' = 0
              /\ completedSteps' = {}
              /\ formData' = d]_vars

C8_Witness ==
    /\ lastOp = "resetWizard"
    /\ isComplete
    /\ finalData # formData
    /\ formData = EmptyMap
    /\ currentStep = 0
    /\ completedSteps = {}

\* C9: no wizard state with an empty list of steps is ever created.
C9_NoEmptyWizard == totalSteps > 0

\* C10: the Next control advances only when canProceed holds for the current
\* step and formData; pressed while it does not hold, it leaves currentStep,
\* completedSteps and formData unchanged.
C10_NextButtonValidates ==
    [][NextButton =>
          /\ ~canProceed => UNCHANGED <<currentStep, completedSteps, formData>>
          /\ currentStep' # currentStep => canProceed]_vars

C10_Witness ==
    /\ lastOp = "NextButton"
    /\ totalSteps > 1
    /\ currentStep = 0
    /\ ~canProceed
    /\ props.validateStep

(***************************************************************************)
(* Properties of the Layout's completion and of the host's validator.      *)
(***************************************************************************)

\* the host's completion state changes in this step
HostChanged ==
    \/ isComplete' # isComplete
    \/ isComplete /\ finalData' # finalData

\* C11: onComplete runs only from the Next/Finish control, on the last step,
\* when canProceed holds there, and it receives the formData of that state;
\* it changes neither currentStep nor completedSteps nor formData, and on a
\* step that is not the last the control never runs it.
C11_OnCompleteOnlyOnValidLastStep ==
    [][/\ HostChanged =>
            /\ lastOp' = "NextButton"
            /\ isLastStep
            /\ canProceed
            /\ isComplete'
            /\ finalData' = formData
            /\ UNCHANGED <<currentStep, completedSteps, formData>>
       /\ NextButton /\ isLastStep /\ canProceed /\ props.onComplete =>
            isComplete' /\ finalData' = formData
       /\ NextButton /\ ~isLastStep => ~HostChanged]_vars

C11_Witness ==
    /\ lastOp = "NextButton"
    /\ isComplete
    /\ totalSteps > 1
    /\ isLastStep
    /\ finalData = formData
    /\ props.validateStep

\* what the validator is to return, read off the fields themselves
NonEmpty(data, key) == key \in DOMAIN data /\ data[key] # ""

C12_Expected(stepIndex, data) ==
    CASE stepIndex = 0 ->
            \/ NonEmpty(data, "mediaUrl")
            \/ ("isTextOnly" \in DOMAIN data /\ data["isTextOnly"] = "true")
      [] stepIndex = 1 ->
            NonEmpty(data, "nicheInput") \/ NonEmpty(data, "nicheSelected")
      [] stepIndex = 2 -> NonEmpty(data, "platform")
      [] stepIndex = 3 -> NonEmpty(data, "goal")
      [] stepIndex = 4 -> NonEmpty(data, "tone")
      [] OTHER -> TRUE

\* C12: the host's validator returns, for step 0, whether mediaUrl is
\* non-empty or isTextOnly is true; for step 1, whether nicheInput or
\* nicheSelected is non-empty; for steps 2, 3, 4, whether platform, goal,
\* tone is non-empty; and true for any other index.
C12_ValidateStepTable ==
    lastOp = "validateStep" =>
        probe.valid = C12_Expected(probe.stepIndex, probe.data)

C12_Witness ==
    /\ lastOp = "validateStep"
    /\ probe.stepIndex = 1
    /\ ~NonEmpty(probe.data, "nicheInput")
    /\ NonEmpty(probe.data, "nicheSelected")
    /\ probe.valid

\* C13: choosing "Create text-only caption" on the upload step (step 0) gives
\* formData.isTextOnly = true, formData.mediaUrl = '', currentStep = 1 and the
\* upload step's id in completedSteps, whether or not a file had been
\* selected before.
C13_TextOnlyAdvances ==
    [][lastOp' = "createTextOnlyCaption" /\ currentStep = 0 =>
          /\ formData'["isTextOnly"] = "true"
          /\ formData'["mediaUrl"] = ""
          /\ currentStep' = 1
          /\ StepId(0) \in completedSteps']_vars

\* text-only chosen while a selected file was still held in formData
C13_Witness ==
    /\ lastOp = "createTextOnlyCaption"
    /\ currentStep = 1
    /\ formData["isTextOnly"] = "true"
    /\ formData["mediaUrl"] = ""
    /\ urlCount >= 1

\* C14: file selection rejects a file whose MIME type is outside the
\* supported set or whose size exceeds 50 MB, and accepts a file of exactly
\* 50 MB; on rejection an error is reported, no previewable reference is
\* allocated, and formData, with any previously selected media and its edit
\* state, is unchanged.
C14_RejectedSelection ==
    [][\A file \in Files : handleFileSelection(file) =>
          IF \/ FileType(file) \notin
                  {"image/jpeg", "image/png", "image/gif", "image/webp",
                   "video/mp4", "video/quicktime", "video/x-msvideo"}
             \/ FileSize(file) > 50 * 1024 * 1024
          THEN /\ editor'.error # ""
               /\ UNCHANGED <<formData, objectUrls, urlCount>>
          ELSE /\ editor'.error = ""
               /\ formData'["media"] = file
               /\ urlCount' = urlCount + 1]_vars

\* a file was rejected while an edited earlier selection was held
C14_Witness ==
    /\ lastOp = "handleFileSelection"
    /\ editor.error # ""
    /\ formData["media"] = "photo.jpg"
    /\ formData["filter"] = "sepia"
    /\ formData["rotation"] = 90
    /\ objectUrls = {formData["mediaUrl"]}

\* C15: after an accepted file selection, from any reachable editor state,
\* all editing sub-state is at its defaults: filter none, rotation 0, text
\* overlay empty, text position at the default, text rotation 0,
\* filtersApplied empty, no pending crop preview, and neither the crop mode
\* nor the text mode active.
C15_SelectionResetsEdits ==
    [][lastOp' = "handleFileSelection" /\ urlCount' = urlCount + 1 =>
          /\ editor'.filter = "none"
          /\ editor'.rotation = 0
          /\ editor'.textOverlay = ""
          /\ editor'.textPosition = DefaultTextPosition
          /\ editor'.textRotation = 0
          /\ formData'["filtersApplied"] = << >>
          /\ editor'.cropPreview = Null
          /\ ~editor'.isCropping
          /\ ~editor'.isAddingText]_vars

\* C16: previewable references do not accumulate: in every state reachable
\* by file selection, crop apply, media removal and the text-only choice,
\* every allocated reference other than the one held in formData.mediaUrl has
\* been released.
C16_NoUrlAccumulation ==
    \A url \in objectUrls : url = Get(formData, "mediaUrl")

\* the filtersApplied log of a formData
FiltersAppliedOf(fd) ==
    IF "filtersApplied" \in DOMAIN fd THEN fd["filtersApplied"] ELSE << >>

Contains(seq, v) == \E i \in 1..Len(seq) : seq[i] = v

NoDuplicates(seq) ==
    \A i, j \in 1..Len(seq) : seq[i] = seq[j] => i = j

\* C17: applyFilter(f) sets filter to f and appends f to filtersApplied
\* exactly when f is not none and not already present, otherwise leaving
\* filtersApplied unchanged; filtersApplied never contains a duplicate or the
\* value none, and applyFilter never removes an entry.
C17_ApplyFilterLog ==
    /\ [](/\ NoDuplicates(FiltersAppliedOf(formData))
          /\ ~Contains(FiltersAppliedOf(formData), "none"))
    /\ [][\A f \in FilterChoices : applyFilter(f) =>
            /\ editor'.filter = f
            /\ formData'["filter"] = f
            /\ FiltersAppliedOf(formData') =
                 IF f # "none" /\ ~Contains(FiltersAppliedOf(formData), f)
                 THEN Append(FiltersAppliedOf(formData), f)
                 ELSE FiltersAppliedOf(formData)]_vars

\* a filter already in the log was applied again, after another one
C17_Witness ==
    /\ lastOp = "applyFilter"
    /\ editor.filter = "sepia"
    /\ FiltersAppliedOf(formData) = <<"sepia", "grayscale">>

\* the rotation after n presses of a rotate button
RECURSIVE Rotated(_, _, _)
Rotated(rotation, direction, n) ==
    IF n = 0 THEN rotation
    ELSE Rotated(newRotation(rotation, direction), direction, n - 1)

\* C18: rotation is periodic: from every reachable rotation value, four
\* clockwise rotations, and likewise four counter-clockwise rotations, return
\* rotation to its original value, with every intermediate value in
\* {0, 90, 180, 270}.
C18_RotationPeriodic ==
    /\ [](\A d \in Directions :
            /\ Rotated(editor.rotation, d, 4) = editor.rotation
            /\ \A n \in 1..3 :
                 Rotated(editor.rotation, d, n) \in {0, 90, 180, 270})
    /\ [][\A d \in Directions : rotateMedia(d) =>
            /\ editor'.rotation = newRotation(editor.rotation, d)
            /\ formData'["rotation"] = editor'.rotation
            /\ editor'.rotation \in {0, 90, 180, 270}]_vars

\* a counter-clockwise press from 0 has wrapped to 270
C18_Witness ==
    /\ lastOp = "rotateMedia"
    /\ editor.rotation = 270
    /\ formData["rotation"] = 270

\* C19: a crop gesture whose start and end differ by less than 5% of the
\* container on either axis produces no pending preview: the end of the
\* gesture leaves the pending preview and formData unchanged.
C19_SmallCropIgnored ==
    [][/\ handleCropEnd
       /\ \/ Abs(editor.cropEnd.x - editor.cropStart.x) < 5
          \/ Abs(editor.cropEnd.y - editor.cropStart.y) < 5
       => /\ editor'.cropPreview = editor.cropPreview
          /\ formData' = formData
          /\ cropRect' = cropRect]_vars

\* a gesture from the top left corner, 3% wide and of full height, has ended
\* on an image that could have been cropped
C19_Witness ==
    /\ lastOp = "handleCropEnd"
    /\ editor.isCropping
    /\ editor.cropStart = [x |-> 0, y |-> 0]
    /\ editor.cropEnd = [x |-> 3, y |-> 100]
    /\ formData["mediaType"] = "image"
    /\ editor.cropPreview = Null

\* C20: whenever the end of a crop gesture synthesizes a preview, the
\* rectangle it uses has all four coordinates within [0,1] and
\* startX <= endX, startY <= endY, for every sequence of pointer events after
\* entering crop mode, a move or a release with no press before it included.
C20_CropRectInUnitSquare ==
    [][lastOp' = "handleCropEnd" /\ editor'.cropPreview # editor.cropPreview =>
          /\ cropRect'.startX \in 0..100
          /\ cropRect'.startY \in 0..100
          /\ cropRect'.endX \in 0..100
          /\ cropRect'.endY \in 0..100
          /\ cropRect'.startX <= cropRect'.endX
          /\ cropRect'.startY <= cropRect'.endY]_vars

\* the handlers of the crop gesture and of the crop mode, applyCrop apart
CropOpsButApply ==
    {"handleCropStart", "handleCropMove", "handleCropEnd", "cancelCrop",
     "toggleCropMode"}

\* C21: a synthesized crop stays pending until committed or discarded:
\* formData.mediaUrl changes as a result of cropping only through applyCrop,
\* which installs the pending preview as mediaUrl, releases the old
\* reference, clears the pending preview and leaves crop mode; cancelCrop
\* clears the pending preview and leaves crop mode with mediaUrl unchanged;
\* applyCrop with no pending preview changes nothing.
C21_CropPendingUntilApplied ==
    [][/\ lastOp' \in CropOpsButApply => formData' = formData
       /\ (applyCrop /\ editor.cropPreview # Null) =>
            /\ formData' = [formData EXCEPT !["mediaUrl"] = editor.cropPreview]
            /\ formData["mediaUrl"] \notin objectUrls'
            /\ editor'.cropPreview = Null
            /\ ~editor'.isCropping
       /\ (applyCrop /\ editor.cropPreview = Null) =>
            UNCHANGED <<formData, editor, objectUrls>>
       /\ cancelCrop =>
            /\ editor'.cropPreview = Null
            /\ ~editor'.isCropping
            /\ formData' = formData
       /\ (editor.cropPreview # Null /\ editor'.cropPreview # editor.cropPreview) =>
            \/ lastOp' \in {"applyCrop", "cancelCrop", "toggleCropMode"}
            \/ currentStep' # 0]_vars

\* a pending crop of the selected image was committed: the data URL is the
\* media URL and the object URL of the file is released
C21_Witness ==
    /\ lastOp = "applyCrop"
    /\ formData["mediaUrl"] = "data:image/jpeg"
    /\ formData["media"] = "photo.jpg"
    /\ objectUrls = {}
    /\ editor.cropPreview = Null
    /\ ~editor.isCropping

\* C22: the crop mode and the text mode are mutually exclusive in every
\* reachable state: after any sequence of toggleCropMode, toggleTextMode,
\* applyCrop, cancelCrop, resetEdits and file selection, isCropping and
\* isAddingText are never both true, and entering one mode exits the other.
C22_ModesExclusive ==
    /\ [](~(editor.isCropping /\ editor.isAddingText))
    /\ [][/\ (toggleCropMode /\ ~editor.isCropping) =>
               editor'.isCropping /\ ~editor'.isAddingText
          /\ (toggleTextMode /\ ~editor.isAddingText) =>
               editor'.isAddingText /\ ~editor'.isCropping]_vars

\* the text mode was entered from the crop mode
C22_Witness ==
    /\ lastOp = "toggleTextMode"
    /\ editor.isAddingText
    /\ ~editor.isCropping
    /\ editor.cropStart = [x |-> 0, y |-> 0]
    /\ editor.cropEnd = [x |-> 100, y |-> 100]

\* C25: resetEdits, from any reachable editor state, returns filter,
\* rotation, text overlay, text position, text rotation and the crop
\* sub-state (crop mode and any pending crop preview) to their defaults, and
\* leaves media, mediaUrl and mediaType unchanged.
C25_ResetEditsDefaults ==
    [][resetEdits =>
          /\ editor'.filter = "none"
          /\ editor'.rotation = 0
          /\ editor'.textOverlay = ""
          /\ editor'.textPosition = DefaultTextPosition
          /\ editor'.textRotation = 0
          /\ ~editor'.isCropping
          /\ editor'.cropPreview = Null
          /\ formData'["media"] = formData["media"]
          /\ formData'["mediaUrl"] = formData["mediaUrl"]
          /\ formData'["mediaType"] = formData["mediaType"]]_vars

\* C26: in every state reachable by file selection, applyFilter, resetEdits,
\* saveEdits and removeMedia, formData.filter, once set, is one of the enum
\* values none, grayscale, sepia, invert, blur, brightness, contrast.
C26_FilterInEnum ==
    "filter" \in DOMAIN formData =>
        formData["filter"] \in
            {"none", "grayscale", "sepia", "invert", "blur", "brightness",
             "contrast"}

\* C27: video media is not croppable: in every reachable state in which the
\* current media is a video there is no pending crop preview, so applyCrop
\* never replaces a video's mediaUrl.
C27_VideoNotCroppable ==
    /\ [](Get(formData, "mediaType") = "video" => editor.cropPreview = Null)
    /\ [][(applyCrop /\ Get(formData, "mediaType") = "video") =>
            formData'["mediaUrl"] = formData["mediaUrl"]]_vars

\* C30: the media path and the text-only path are exclusive in formData: in
\* every state reachable by text-only selection, Previous, file selection and
\* media removal, formData.isTextOnly is true only if formData.mediaUrl is
\* empty, so the upload step is never valid only because of an isTextOnly
\* flag left over from before media was selected and removed.
C30_TextOnlyExcludesMedia ==
    /\ [](Truthy(Get(formData, "isTextOnly")) =>
            ~Truthy(Get(formData, "mediaUrl")))
    /\ [][lastOp' = "removeMedia" => ~validateStep(0, formData')]_vars

\* C28: steps are completed strictly in order: in every reachable state of a
\* wizard with at least one step, completedSteps is exactly the set of ids of
\* steps[0..m-1] for some m with currentStep <= m <= n-1; the user is never
\* beyond the first uncompleted step and the last step's id is never in
\* completedSteps.
C28_CompletedInOrder ==
    totalSteps > 0 =>
        /\ \E m \in currentStep..(totalSteps - 1) :
              completedSteps = {StepId(i) : i \in 0..(m - 1)}
        /\ StepId(totalSteps - 1) \notin completedSteps

\* every step but the last is completed and the user has gone back to the
\* first step
C28_Witness ==
    /\ totalSteps = MaxSteps
    /\ currentStep = 0
    /\ completedSteps = {StepId(i) : i \in 0..(totalSteps - 2)}
    /\ lastOp = "goToStep"

\* C29: validation cannot be bypassed by navigation: whenever onComplete is
\* invoked, after any sequence of Next, Previous, step-indicator jumps, media
\* removal and form updates, the host validator holds on the delivered
\* formData for every step index 0..n-1, not only for the last step.
C29_CompleteMeansAllStepsValid ==
    (isComplete /\ props.validateStep) =>
        \A i \in 0..(totalSteps - 1) : validateStep(i, finalData)

\* C23: text dragging and text rotating are active only while the text mode
\* is active (isDraggingText or isRotatingText implies isAddingText in every
\* reachable state), and a pointer-leave ends an active drag or rotation
\* exactly as a pointer-up does: after either event both flags are false and
\* formData holds the final text position / rotation.
C23_TextDragRotateTransient ==
    /\ []((editor.isDraggingText \/ editor.isRotatingText) =>
            editor.isAddingText)
    /\ [][/\ lastOp' \in {"handleTextDragEnd", "handleRotationEnd"} =>
               ~editor'.isDraggingText /\ ~editor'.isRotatingText
          /\ lastOp' = "handleTextDragEnd" =>
               formData'["textPosition"] = editor.textPosition
          /\ lastOp' = "handleRotationEnd" =>
               formData'["textRotation"] = editor.textRotation]_vars

\* C24: the asynchronous load of the last used preference in the Platform,
\* Goal and Tone steps fills only an empty field, under every interleaving:
\* if the user selects a value for the field after the load was dispatched
\* and before it completes, the completing load does not overwrite the
\* user's value in formData.
C24_LoadFillsOnlyEmpty ==
    [][lastOp' = "loadUserPreferences" =>
          \A f \in prefs.byUser : formData'[f] = formData[f]]_vars

====
